---- MODULE Spec2Model ----
(***************************************************************************)
(* Dynamic SQL Assistant: the column sanitizer, the schema loader and the  *)
(* query executor with its repair strategies (utils/database.py), together *)
(* with the column mapping shown by app.py.                                *)
(*                                                                         *)
(* A name (raw header, column name, identifier in a query) is a sequence   *)
(* of characters; a character is a one-character string, or the code point *)
(* of a non-ASCII character written "U+XXXX".                              *)
(*                                                                         *)
(* A query text is a statement kind, a table name and the sequence of the  *)
(* identifier tokens of the text, each with its quoting. str.replace on    *)
(* the text is modelled on the tokens; over the names used here no pattern *)
(* can match across two tokens, so both agree.                             *)
(***************************************************************************)
EXTENDS Integers, Sequences, FiniteSets, TLC

\* ---------------------------------------------------------------- bounds
MaxLen == 2      \* longest raw name given to clean_column_name on its own
MaxCols == 2     \* most columns in a CSV header
MaxItems == 2    \* most identifier tokens in a query text

VARIABLES
    raw_name,        \* clean_column_name: the argument
    cleaned,         \* clean_column_name: the outcome of the call
    csv,             \* the CSV source loaded twice
    first_load,      \* outcome of the first load of csv
    second_load,     \* outcome of the second load of csv
    df,              \* app.py: columns of the dataframe read from the CSV
    column_mapping,  \* app.py: the displayed original -> processed mapping
    via,             \* who made db_conn: "None", "loader" or "caller"
    dqs,             \* engine build option: double-quoted string fallback
    db_conn,         \* the connection: table name -> relation
    pc,              \* position inside execute_query
    query,           \* execute_query: the query argument
    e,               \* execute_query: the exception of the first execution
    actual_columns,  \* execute_query: the local list, or Unbound
    col_i,           \* execute_query: index of the for loop
    modified_query,  \* execute_query: the local rewritten text
    outcome,         \* how the last call of execute_query ended
    executed         \* the executions made by the current/last call, in order

cleanVars == <<raw_name, cleaned>>
loadVars == <<csv, first_load, second_load>>
appVars == <<df, column_mapping, via, dqs, db_conn>>
callVars == <<pc, query, e, actual_columns, col_i, modified_query, outcome, executed>>
vars == <<raw_name, cleaned, csv, first_load, second_load, df, column_mapping,
          via, dqs, db_conn, pc, query, e, actual_columns, col_i,
          modified_query, outcome, executed>>

\* ------------------------------------------------------------ characters
UPPER == <<"A","B","C","D","E","F","G","H","I","J","K","L","M",
           "N","O","P","Q","R","S","T","U","V","W","X","Y","Z">>
LOWER == <<"a","b","c","d","e","f","g","h","i","j","k","l","m",
           "n","o","p","q","r","s","t","u","v","w","x","y","z">>
DIGITS == {"0","1","2","3","4","5","6","7","8","9"}
\* non-ASCII characters: e-acute, E-acute, ARABIC-INDIC DIGIT THREE
UNI_LOWER == {"U+00E9"}
UNI_UPPER == {"U+00C9"}
UNI_DIGIT == {"U+0663"}

Range(s) == {s[i] : i \in DOMAIN s}

AsciiLetters == Range(UPPER) \cup Range(LOWER)

\* str.isdigit / str.isalnum of one character
isdigit(c) == c \in DIGITS \cup UNI_DIGIT
isalnum(c) == c \in AsciiLetters \cup DIGITS \cup UNI_LOWER \cup UNI_UPPER \cup UNI_DIGIT

\* str.lower of one character
lower_char(c) ==
    IF c \in Range(UPPER) THEN LOWER[CHOOSE i \in DOMAIN UPPER : UPPER[i] = c]
    ELSE IF c = "U+00C9" THEN "U+00E9"
    ELSE c

lower(s) == [i \in DOMAIN s |-> lower_char(s[i])]

\* `sub in s` for strings
Contains(s, sub) ==
    \E k \in 0..(Len(s) - Len(sub)) :
        \A j \in 1..Len(sub) : s[k + j] = sub[j]

\* s.replace(old, new) where old is a single character
replace_char(s, old, new) == [i \in DOMAIN s |-> IF s[i] = old THEN new ELSE s[i]]

\* ------------------------------------------------------ clean_column_name
Returned(v) == [raised |-> "", val |-> v]
Raised(exc) == [raised |-> exc, val |-> <<>>]

NotCalled == [raised |-> "not called", val |-> <<>>]

COL_PREFIX == <<"c","o","l","_">>

clean_column_name(name) ==
    LET spaces == replace_char(name, " ", "_")
        clean_name == [i \in DOMAIN spaces |->
                          IF isalnum(spaces[i]) \/ spaces[i] = "_"
                          THEN spaces[i] ELSE "_"]
    IN  IF Len(clean_name) = 0 THEN Raised("IndexError")
        ELSE Returned(lower(IF isdigit(clean_name[1])
                            THEN COL_PREFIX \o clean_name ELSE clean_name))

\* ------------------------------------------------------------------ names
N_a == <<"a">>
\* a raw header with a space and capitals, as "Passenger Class"
N_PC == <<"P"," ","C">>
N_p_c == <<"p","_","c">>
\* the placeholder of strategy 3, without its quotes
PLACEHOLDER == <<"r","a","w"," ","p","r","e","d","i","c","t","e","d">>
N_raw_predicted == <<"r","a","w","_","p","r","e","d","i","c","t","e","d">>
N_Raw_Predicted == <<"R","a","w","_","P","r","e","d","i","c","t","e","d">>
RAW == <<"r","a","w">>
PREDICT == <<"p","r","e","d","i","c","t">>

\* text fragments of messages
NO_SUCH_COLUMN == <<"n","o"," ","s","u","c","h"," ","c","o","l","u","m","n">>
NO_SUCH_TABLE == <<"n","o"," ","s","u","c","h"," ","t","a","b","l","e">>
DUPLICATE_COLUMN == <<"d","u","p","l","i","c","a","t","e"," ","c","o","l","u","m","n">>
NOT_ITERABLE == <<"n","o","t"," ","i","t","e","r","a","b","l","e">>
NO_ATTRIBUTE == <<"n","o"," ","a","t","t","r","i","b","u","t","e">>
EXECUTION_FAILED == <<"E","x","e","c","u","t","i","o","n"," ","f","a","i","l","e","d">>
QUERY_ERROR == <<"Q","u","e","r","y"," ","e","r","r","o","r">>
AVAILABLE_COLUMNS == <<"A","v","a","i","l","a","b","l","e"," ","c","o","l","u","m","n","s">>
COMMA_SPACE == <<",", " ">>

\* -------------------------------------------------------------- relations
TableNames == {"data", "t"}
DEFAULT_TABLE == "data"

NoTable == [exists |-> FALSE, cols |-> <<>>, cells |-> <<>>]
NoTables == [t \in TableNames |-> NoTable]

\* column i of a loaded relation holds the cells of column i of the source
Relation(cols) == [exists |-> TRUE, cols |-> cols, cells |-> [i \in DOMAIN cols |-> i]]

\* SQLite compares identifiers without regard to ASCII case
ascii_lower(s) ==
    [i \in DOMAIN s |-> IF s[i] \in Range(UPPER)
                        THEN LOWER[CHOOSE k \in DOMAIN UPPER : UPPER[k] = s[i]]
                        ELSE s[i]]
SqlEq(a, b) == ascii_lower(a) = ascii_lower(b)

HasDuplicates(cols) ==
    \E i, j \in DOMAIN cols : i < j /\ SqlEq(cols[i], cols[j])

\* ---------------------------------------------------------------- queries
\* one identifier token of a query text: quote is "bare", "dq" or "bt"
Ref(quote, name) == [quote |-> quote, name |-> name]
Query(kind, table, items) == [kind |-> kind, table |-> table, items |-> items]
NoQuery == Query("", DEFAULT_TABLE, <<>>)

\* query.replace('"', '`')
QuoteToBacktick(q) ==
    [q EXCEPT !.items = [i \in DOMAIN q.items |->
        IF q.items[i].quote = "dq" THEN Ref("bt", q.items[i].name) ELSE q.items[i]]]

\* query.replace(f'"{col}"', clean_col)
QuotedToClean(q, col, clean_col) ==
    [q EXCEPT !.items = [i \in DOMAIN q.items |->
        IF q.items[i] = Ref("dq", col) THEN Ref("bare", clean_col) ELSE q.items[i]]]

\* query.replace('"raw predicted"', f'"{col}"')
PlaceholderToColumn(q, col) ==
    [q EXCEPT !.items = [i \in DOMAIN q.items |->
        IF q.items[i] = Ref("dq", PLACEHOLDER) THEN Ref("dq", col) ELSE q.items[i]]]

\* ------------------------------------------------------------- exceptions
NoError == [type |-> "", msg |-> <<>>, name |-> <<>>, sql |-> NoQuery]
Error(type, msg, name, sql) == [type |-> type, msg |-> msg, name |-> name, sql |-> sql]

\* the characters " and `, by code point
DOUBLE_QUOTE == "U+0022"
BACKTICK == "U+0060"

\* a token as it stands in the query text
ItemText(item) ==
    IF item.quote = "dq" THEN <<DOUBLE_QUOTE>> \o item.name \o <<DOUBLE_QUOTE>>
    ELSE IF item.quote = "bt" THEN <<BACKTICK>> \o item.name \o <<BACKTICK>>
    ELSE item.name

\* str(e), as its fragments; pandas puts the statement into the text of a
\* DatabaseError
ErrorText(err) ==
    IF err.type = "DatabaseError"
    THEN <<EXECUTION_FAILED>> \o [i \in DOMAIN err.sql.items |-> ItemText(err.sql.items[i])]
         \o <<err.msg, err.name>>
    ELSE <<err.msg>>

\* "no such column" in str(e).lower()
MentionsNoSuchColumn(err) ==
    \E i \in DOMAIN ErrorText(err) : Contains(lower(ErrorText(err)[i]), NO_SUCH_COLUMN)

RECURSIVE join(_, _)
\* sep.join(names)
join(sep, names) ==
    IF Len(names) = 0 THEN <<>>
    ELSE IF Len(names) = 1 THEN names[1]
    ELSE names[1] \o sep \o join(sep, Tail(names))

\* ------------------------------------------------------------ the engine
\* the position of the column a token names, or 0
Resolve(rel, name) ==
    IF \E i \in DOMAIN rel.cols : SqlEq(rel.cols[i], name)
    THEN CHOOSE i \in DOMAIN rel.cols : SqlEq(rel.cols[i], name)
    ELSE 0

\* a double-quoted token that names no column is read as a string literal
\* when the engine is built with that fallback
Unresolved(rel, item, fallback) ==
    /\ Resolve(rel, item.name) = 0
    /\ ~(item.quote = "dq" /\ fallback)

ResultColumn(rel, item) ==
    IF Resolve(rel, item.name) # 0
    THEN [literal |-> FALSE, cell |-> rel.cells[Resolve(rel, item.name)], text |-> <<>>]
    ELSE [literal |-> TRUE, cell |-> 0, text |-> item.name]

Succeeds(conn, value) == [conn |-> conn, ok |-> TRUE, value |-> value, err |-> NoError]
Fails(conn, err) == [conn |-> conn, ok |-> FALSE, value |-> <<>>, err |-> err]

\* pd.read_sql_query(q, conn) on a connection whose engine has the
\* double-quoted string fallback set to `fallback`
read_sql_query(q, conn, made_by, fallback) ==
    LET rel == conn[q.table]
        bad == {i \in DOMAIN q.items : Unresolved(rel, q.items[i], fallback)}
        first_bad == CHOOSE i \in bad : \A j \in bad : i <= j
    IN
    IF made_by = "None"
    THEN Fails(conn, Error("AttributeError", NO_ATTRIBUTE, <<>>, q))
    ELSE IF ~rel.exists
    THEN Fails(conn, Error("DatabaseError", NO_SUCH_TABLE, <<>>, q))
    ELSE IF q.kind = "select"
    THEN IF bad # {}
         THEN Fails(conn, Error("DatabaseError", NO_SUCH_COLUMN, q.items[first_bad].name, q))
         ELSE Succeeds(conn, [i \in DOMAIN q.items |-> ResultColumn(rel, q.items[i])])
    ELSE IF q.kind = "drop"
    THEN Fails([conn EXCEPT ![q.table] = NoTable],
               Error("TypeError", NOT_ITERABLE, <<>>, q))
    ELSE \* "rename": items[1] names the column, items[2] is the new name
         LET from == Resolve(rel, q.items[1].name)
             to == q.items[2].name
         IN  IF from = 0
             THEN Fails(conn, Error("DatabaseError", NO_SUCH_COLUMN, q.items[1].name, q))
             ELSE IF \E i \in DOMAIN rel.cols : i # from /\ SqlEq(rel.cols[i], to)
             THEN Fails(conn, Error("DatabaseError", DUPLICATE_COLUMN, to, q))
             ELSE Fails([conn EXCEPT ![q.table].cols[from] = to],
                        Error("TypeError", NOT_ITERABLE, <<>>, q))

\* cursor.execute("SELECT name FROM pragma_table_info('data')")
table_info(conn) == conn[DEFAULT_TABLE].cols

\* ------------------------------------------------------------- the loader
\* create_database_from_csv(csv_path, table_name), csv_path holding a CSV
\* with the given header; to_sql refuses two columns of the same name
create_database_from_csv(header, table_name) ==
    LET columns == [i \in DOMAIN header |-> clean_column_name(header[i])]
        names == [i \in DOMAIN header |-> columns[i].val]
    IN  IF \E i \in DOMAIN header : columns[i].raised # ""
        THEN [raised |-> "IndexError", conn |-> NoTables]
        ELSE IF HasDuplicates(names)
        THEN [raised |-> "OperationalError", conn |-> NoTables]
        ELSE [raised |-> "", conn |-> [NoTables EXCEPT ![table_name] = Relation(names)]]

RECURSIVE dict(_)
\* dict(pairs): keys in the order of their first insertion, each with the
\* value of its last insertion
dict(pairs) ==
    IF Len(pairs) = 0 THEN <<>>
    ELSE LET init == dict(SubSeq(pairs, 1, Len(pairs) - 1))
             last == pairs[Len(pairs)]
         IN  IF \E i \in DOMAIN init : init[i][1] = last[1]
             THEN [i \in DOMAIN init |-> IF init[i][1] = last[1] THEN last ELSE init[i]]
             ELSE Append(init, last)

\* the mapping keyed by the processed name: equal processed names merge
MergedMapping(columns) ==
    LET processed_columns == [i \in DOMAIN columns |-> clean_column_name(columns[i]).val]
        merged == dict([i \in DOMAIN columns |-> <<processed_columns[i], columns[i]>>])
    IN  [i \in DOMAIN merged |-> <<merged[i][2], merged[i][1]>>]

\* app.py: processed_columns, then column_mapping
ColumnMapping(columns) ==
    LET processed_columns == [i \in DOMAIN columns |-> clean_column_name(columns[i]).val]
    IN  dict([i \in DOMAIN columns |-> <<columns[i], processed_columns[i]>>])

\* one load as app.py makes it: the dataframe is read, the relation is made
\* and the mapping is computed from the dataframe's columns
LoadOutcome(header, table_name) ==
    [raised |-> create_database_from_csv(header, table_name).raised,
     conn |-> create_database_from_csv(header, table_name).conn,
     mapping |-> ColumnMapping(header)]

NotLoaded == [raised |-> "not loaded", conn |-> NoTables, mapping |-> <<>>]
NoCsv == [header |-> <<>>, table_name |-> DEFAULT_TABLE]

\* ------------------------------------------------------------ input sets
SeqsUpTo(S, n) == UNION {[1..k -> S] : k \in 1..n}

Distinct(s) == \A i, j \in DOMAIN s : i # j => s[i] # s[j]

\* pd.read_csv gives every column a non-empty name different from the others;
\* the last header has two names that sanitize to the same one
HeaderNames == {N_a, N_PC, PLACEHOLDER}
Headers == {h \in SeqsUpTo(HeaderNames, MaxCols) : Distinct(h)} \cup {<<N_PC, N_p_c>>}

\* headers of the sources loaded twice; some of them sanitize to the same name
N_1x == <<"1","x">>
LoadNames == {N_a, N_PC, N_p_c, PLACEHOLDER, N_1x}
LoadHeaders == {h \in SeqsUpTo(LoadNames, MaxCols) : Distinct(h)}

\* raw names given to clean_column_name on its own
CleanChars == {"a", "Z", "7", "_", " ", "-", "U+00E9", "U+00C9", "U+0663"}
RawNames == {<<>>} \cup SeqsUpTo(CleanChars, MaxLen)

\* connections the caller of execute_query built without the loader
CallerConns ==
    { [NoTables EXCEPT !["data"] = Relation(<<N_PC, N_Raw_Predicted>>),
                       !["t"] = Relation(<<N_p_c>>)] }

IsIdentifier(name) ==
    /\ Len(name) > 0
    /\ \A i \in DOMAIN name : isalnum(name[i]) \/ name[i] = "_"
    /\ name[1] \notin DIGITS

InputRefs == {Ref("bare", N_p_c), Ref("bare", N_raw_predicted),
              Ref("dq", N_PC), Ref("dq", PLACEHOLDER)}
Queries ==
    {Query("select", t, items) : t \in TableNames, items \in SeqsUpTo(InputRefs, MaxItems)}
    \cup {Query("rename", t, <<from, Ref("dq", N_PC)>>) : t \in TableNames, from \in InputRefs}
    \cup {Query("drop", t, <<>>) : t \in TableNames}

\* ------------------------------------------------------- execute_query
Unbound == [bound |-> FALSE, names |-> <<>>]
Bound(names) == [bound |-> TRUE, names |-> names]

NoOutcome == [kind |-> "none", type |-> "", text |-> <<>>, value |-> <<>>]
Return(value) == [kind |-> "returned", type |-> "", text |-> <<>>, value |-> value]

\* line 106: raise Exception(f"Query error: {e}\n\nAvailable columns: ...")
final_raise(err, columns) ==
    IF columns.bound
    THEN [kind |-> "raised", type |-> "Exception",
          text |-> <<QUERY_ERROR>> \o ErrorText(err)
                   \o <<AVAILABLE_COLUMNS, join(COMMA_SPACE, columns.names)>>,
          value |-> <<>>]
    ELSE [kind |-> "raised", type |-> "UnboundLocalError", text |-> <<>>, value |-> <<>>]

Attempt(strategy, col, text, res) ==
    [strategy |-> strategy, col |-> col, text |-> text, ok |-> res.ok,
     value |-> res.value, err |-> res.err]

\* a result that does not end the call
NeverStops(res) == FALSE

\* `return pd.read_sql_query(...)` inside try: a result ends the call
Stops(res) == res.ok

\* the guard left out: every column is tried
NoSpaceGuard(col) == TRUE

\* if ' ' in col
space_guard(col) == Contains(col, <<" ">>)

\* if "raw" in col.lower() and "predict" in col.lower()
fuzzy_guard(col) == Contains(lower(col), RAW) /\ Contains(lower(col), PREDICT)

Strategy1Text(q, modified) == QuoteToBacktick(q)
Strategy2Text(q, modified, col) == QuotedToClean(q, col, clean_column_name(col).val)
\* the placeholder replaced in the text left by the attempt before
Strategy3Carry(q, modified, col) == PlaceholderToColumn(modified, col)

Strategy3Text(q, modified, col) == PlaceholderToColumn(q, col)

\* ---------------------------------------------------------------- actions
InitCall ==
    /\ pc = "idle"
    /\ query = NoQuery
    /\ e = NoError
    /\ actual_columns = Unbound
    /\ col_i = 0
    /\ modified_query = NoQuery
    /\ outcome = NoOutcome
    /\ executed = <<>>

InitApp ==
    /\ df = <<>>
    /\ column_mapping = <<>>
    /\ via = "None"
    /\ db_conn = NoTables

InitClean == raw_name = <<>> /\ cleaned = NotCalled
InitLoad == csv = NoCsv /\ first_load = NotLoaded /\ second_load = NotLoaded

Init ==
    /\ InitClean
    /\ InitLoad
    /\ InitApp
    /\ dqs \in BOOLEAN
    /\ InitCall

\* app.py 31-42 / 128-143: read the CSV, load it, show the mapping
Load(header, table_name) ==
    LET made == create_database_from_csv(header, table_name)
    IN  /\ pc = "idle"
        /\ df' = header
        /\ column_mapping' = ColumnMapping(header)
        /\ via' = IF made.raised = "" THEN "loader" ELSE "None"
        /\ db_conn' = made.conn
        /\ UNCHANGED <<dqs, cleanVars, loadVars, callVars>>

\* a caller hands execute_query a connection of its own
Connect(conn) ==
    /\ pc = "idle"
    /\ df' = <<>>
    /\ column_mapping' = <<>>
    /\ via' = "caller"
    /\ db_conn' = conn
    /\ UNCHANGED <<dqs, cleanVars, loadVars, callVars>>

\* lines 63-74: the first execution; when it fails, the error is classified
\* and, for an unresolved column, the column names are read
Call(q) ==
    LET res == read_sql_query(q, db_conn, via, dqs)
    IN  /\ pc = "idle"
        /\ via # "None" \/ df # <<>>
        /\ query' = q
        /\ modified_query' = NoQuery
        /\ col_i' = 0
        /\ executed' = <<Attempt(0, 0, q, res)>>
        /\ db_conn' = res.conn
        /\ IF Stops(res)
           THEN /\ outcome' = Return(res.value)
                /\ e' = NoError
                /\ actual_columns' = Unbound
                /\ pc' = "done"
           ELSE /\ outcome' = NoOutcome
                /\ e' = res.err
                /\ IF MentionsNoSuchColumn(res.err)
                   THEN /\ actual_columns' = Bound(table_info(res.conn))
                        /\ pc' = "strategy1"
                   ELSE /\ actual_columns' = Unbound
                        /\ pc' = "raise"
        /\ UNCHANGED <<df, column_mapping, via, dqs, cleanVars, loadVars>>

\* lines 78-82
Strategy1 ==
    LET text == Strategy1Text(query, modified_query)
        res == read_sql_query(text, db_conn, via, dqs)
    IN  /\ pc = "strategy1"
        /\ modified_query' = text
        /\ executed' = Append(executed, Attempt(1, 0, text, res))
        /\ db_conn' = res.conn
        /\ IF Stops(res)
           THEN outcome' = Return(res.value) /\ pc' = "done" /\ col_i' = col_i
           ELSE outcome' = outcome /\ pc' = "strategy2" /\ col_i' = 1
        /\ UNCHANGED <<query, e, actual_columns, df, column_mapping, via, dqs,
                       cleanVars, loadVars>>

\* lines 85-93: one iteration of the loop, or its end
Strategy2 ==
    /\ pc = "strategy2"
    /\ IF col_i > Len(actual_columns.names)
       THEN /\ pc' = "strategy3"
            /\ col_i' = 1
            /\ UNCHANGED <<modified_query, executed, db_conn, outcome>>
       ELSE LET col == actual_columns.names[col_i]
                text == Strategy2Text(query, modified_query, col)
                res == read_sql_query(text, db_conn, via, dqs)
            IN  IF space_guard(col)
                THEN /\ modified_query' = text
                     /\ executed' = Append(executed, Attempt(2, col_i, text, res))
                     /\ db_conn' = res.conn
                     /\ IF Stops(res)
                        THEN outcome' = Return(res.value) /\ pc' = "done" /\ col_i' = col_i
                        ELSE outcome' = outcome /\ pc' = pc /\ col_i' = col_i + 1
                ELSE /\ col_i' = col_i + 1
                     /\ UNCHANGED <<pc, modified_query, executed, db_conn, outcome>>
    /\ UNCHANGED <<query, e, actual_columns, df, column_mapping, via, dqs,
                   cleanVars, loadVars>>

\* lines 96-103: one iteration of the loop, or its end
Strategy3 ==
    /\ pc = "strategy3"
    /\ IF col_i > Len(actual_columns.names)
       THEN /\ pc' = "raise"
            /\ UNCHANGED <<col_i, modified_query, executed, db_conn, outcome>>
       ELSE LET col == actual_columns.names[col_i]
                text == Strategy3Text(query, modified_query, col)
                res == read_sql_query(text, db_conn, via, dqs)
            IN  IF fuzzy_guard(col)
                THEN /\ modified_query' = text
                     /\ executed' = Append(executed, Attempt(3, col_i, text, res))
                     /\ db_conn' = res.conn
                     /\ IF Stops(res)
                        THEN outcome' = Return(res.value) /\ pc' = "done" /\ col_i' = col_i
                        ELSE outcome' = outcome /\ pc' = pc /\ col_i' = col_i + 1
                ELSE /\ col_i' = col_i + 1
                     /\ UNCHANGED <<pc, modified_query, executed, db_conn, outcome>>
    /\ UNCHANGED <<query, e, actual_columns, df, column_mapping, via, dqs,
                   cleanVars, loadVars>>

\* line 106
Raise ==
    /\ pc = "raise"
    /\ outcome' = final_raise(e, actual_columns)
    /\ pc' = "done"
    /\ UNCHANGED <<query, e, actual_columns, col_i, modified_query, executed,
                   appVars, cleanVars, loadVars>>

\* app.py 93-108: the caller shows the result or the error; the frame of the
\* call is gone
Finish ==
    /\ pc = "done"
    /\ pc' = "idle"
    /\ query' = NoQuery
    /\ e' = NoError
    /\ actual_columns' = Unbound
    /\ col_i' = 0
    /\ modified_query' = NoQuery
    /\ outcome' = NoOutcome
    /\ executed' = <<>>
    /\ UNCHANGED <<appVars, cleanVars, loadVars>>

Next ==
    \/ \E header \in Headers, table_name \in TableNames : Load(header, table_name)
    \/ \E conn \in CallerConns : Connect(conn)
    \/ \E q \in Queries : Call(q)
    \/ Strategy1
    \/ Strategy2
    \/ Strategy3
    \/ Raise
    \/ Finish

Spec == Init /\ [][Next]_vars

\* ------------------------------------------- clean_column_name on its own
InitCleanCall ==
    /\ raw_name \in RawNames
    /\ cleaned = NotCalled
    /\ InitLoad
    /\ InitApp
    /\ dqs = TRUE
    /\ InitCall

CleanCall ==
    /\ cleaned = NotCalled
    /\ cleaned' = clean_column_name(raw_name)
    /\ UNCHANGED <<raw_name, loadVars, appVars, callVars>>

SpecClean == InitCleanCall /\ [][CleanCall]_vars

\* ---------------------------------------------- the same source loaded twice
InitLoadTwice ==
    /\ InitClean
    /\ csv \in {[header |-> h, table_name |-> t] : h \in LoadHeaders, t \in TableNames}
    /\ first_load = NotLoaded
    /\ second_load = NotLoaded
    /\ InitApp
    /\ dqs = TRUE
    /\ InitCall

FirstLoad ==
    /\ first_load = NotLoaded
    /\ first_load' = LoadOutcome(csv.header, csv.table_name)
    /\ UNCHANGED <<csv, second_load, cleanVars, appVars, callVars>>

SecondLoad ==
    /\ first_load # NotLoaded
    /\ second_load = NotLoaded
    /\ second_load' = LoadOutcome(csv.header, csv.table_name)
    /\ UNCHANGED <<csv, first_load, cleanVars, appVars, callVars>>

NextLoadTwice == FirstLoad \/ SecondLoad

SpecLoad == InitLoadTwice /\ [][NextLoadTwice]_vars

\* ================================================================ properties
HasSpace(name) == \E i \in DOMAIN name : name[i] = " "
IsFuzzy(name) == Contains(lower(name), RAW) /\ Contains(lower(name), PREDICT)

\* frags occurs in text as a run of consecutive fragments
Embeds(text, frags) ==
    \E k \in 0..(Len(text) - Len(frags)) : SubSeq(text, k + 1, k + Len(frags)) = frags

\* the relation the loader made: the one table of its connection
LoaderTables == {t \in TableNames : db_conn[t].exists}

\* C1: a first execution that fails with an error whose text does not mention
\* "no such column" ends the call with a query-execution error that carries
\* the text of that error, after exactly one execution.
C1_OtherErrorSurfaced ==
    (pc = "done" /\ e # NoError /\ ~MentionsNoSuchColumn(e)) =>
        /\ outcome.kind = "raised"
        /\ outcome.type = "Exception"
        /\ Embeds(outcome.text, ErrorText(e))
        /\ Len(executed) = 1

\* C2: on a relation made by the loader under any table name, a call whose
\* first execution fails on an unresolved column and whose repairs all fail
\* raises a failure whose message embeds the text of the first error and the
\* full ordered list of the relation's column names.
C2_FailureListsColumns ==
    (pc = "done" /\ via = "loader" /\ MentionsNoSuchColumn(e) /\ outcome.kind = "raised") =>
        /\ outcome.type = "Exception"
        /\ Embeds(outcome.text, ErrorText(e))
        /\ \A t \in LoaderTables :
              Embeds(outcome.text, <<AVAILABLE_COLUMNS, join(COMMA_SPACE, db_conn[t].cols)>>)

\* C3: the executions of a call are the original, then strategy 1, then
\* strategy 2 over the space columns in stored order, then strategy 3 over the
\* fuzzy columns in stored order; nothing is executed after a success and no
\* strategy starts before the earlier ones have failed on all their columns;
\* a returned result is the one of the last, successful execution; a raised
\* failure carries the first error, never the one of a repair attempt.
AttemptBefore(i, strategy, col) ==
    \E j \in 1..(i - 1) : executed[j].strategy = strategy /\ executed[j].col = col

C4_CleanNameShape ==
    cleaned # NotCalled =>
        /\ cleaned.raised = ""
        /\ Len(cleaned.val) > 0
        /\ \A i \in DOMAIN cleaned.val : cleaned.val[i] \in Range(LOWER) \cup DIGITS \cup {"_"}
        /\ cleaned.val[1] \notin DIGITS

\* C5: on a relation the loader made from a header with a space, the query
\* that selects the raw header in double quotes from data is repaired by
\* strategy 2 and returns the values of the query that selects the sanitized
\* name.
C5_RawHeaderRepaired ==
    \A i \in DOMAIN df :
        ( /\ pc = "done"
          /\ via = "loader"
          /\ HasSpace(df[i])
          /\ db_conn[DEFAULT_TABLE] = Relation([k \in DOMAIN df |-> clean_column_name(df[k]).val])
          /\ query = Query("select", DEFAULT_TABLE, <<Ref("dq", df[i])>>) ) =>
            /\ outcome.kind = "returned"
            /\ \E j \in DOMAIN executed : executed[j].strategy = 2
            /\ outcome.value =
                  read_sql_query(Query("select", DEFAULT_TABLE,
                                       <<Ref("bare", clean_column_name(df[i]).val)>>),
                                 db_conn, via, dqs).value

\* C6: no step of execute_query changes the relation: its column list and its
\* rows stay as the load left them.
C6_ReadOnly ==
    [][(pc # "idle" \/ pc' # "idle") => db_conn' = db_conn]_vars

\* C7 as stated: loading the same source twice gives two relations with the
\* same rows and the same mapping, the mapping having one entry per original
\* column, in order, valued clean_column_name of the header.
MappingOfHeader(mapping, header) ==
    /\ Len(mapping) = Len(header)
    /\ \A i \in DOMAIN header :
          mapping[i] = <<header[i], clean_column_name(header[i]).val>>

RelationOfHeader(conn, header, table_name) ==
    /\ conn[table_name].exists
    /\ conn[table_name].cols = [i \in DOMAIN header |-> clean_column_name(header[i]).val]
    /\ conn[table_name].cells = [i \in DOMAIN header |-> i]
    /\ \A t \in TableNames \ {table_name} : ~conn[t].exists

Collides(header) ==
    \E i, j \in DOMAIN header :
        i < j /\ clean_column_name(header[i]).val = clean_column_name(header[j]).val

ExpectedItem(strategy, col, item) ==
    IF strategy = 1
    THEN IF item.quote = "dq" THEN [quote |-> "bt", name |-> item.name] ELSE item
    ELSE IF strategy = 2
    THEN IF item.quote = "dq" /\ item.name = col
         THEN [quote |-> "bare", name |-> clean_column_name(col).val] ELSE item
    ELSE IF strategy = 3
    THEN IF item.quote = "dq" /\ item.name = PLACEHOLDER
         THEN [quote |-> "dq", name |-> col] ELSE item
    ELSE item

C8_RewritesOfOriginal ==
    \A i \in DOMAIN executed :
        LET a == executed[i]
            col == IF a.col = 0 THEN <<>> ELSE actual_columns.names[a.col]
        IN  /\ executed[1].text = query
            /\ a.text.kind = query.kind
            /\ a.text.table = query.table
            /\ Len(a.text.items) = Len(query.items)
            /\ \A k \in DOMAIN query.items :
                  a.text.items[k] = ExpectedItem(a.strategy, col, query.items[k])

\* a call whose strategy 1 changed the text and whose later strategy-3
\* attempt changed the original text in another way
C8_Witness ==
    /\ Len(executed) >= 3
    /\ executed[2].text # query
    /\ executed[Len(executed)].strategy = 3
    /\ executed[Len(executed)].text # query
    /\ executed[Len(executed)].text # executed[2].text

\* C9: a call makes at most 2 + S + F executions, S the number of actual
\* columns with a space and F the number with both "raw" and "predict"
\* (one execution when the column names were not read); no attempt is made
\* twice and no strategy is entered again: every step of a call lowers the
\* number of steps the call can still take, and a call that has ended has a
\* result or a raised failure.
SpaceColumns == {k \in DOMAIN actual_columns.names : HasSpace(actual_columns.names[k])}
FuzzyColumns == {k \in DOMAIN actual_columns.names : IsFuzzy(actual_columns.names[k])}

ExecutionsBounded ==
    /\ Len(executed) <= IF actual_columns.bound
                        THEN 2 + Cardinality(SpaceColumns) + Cardinality(FuzzyColumns)
                        ELSE 1
    /\ \A i, j \in DOMAIN executed :
          i # j => <<executed[i].strategy, executed[i].col>>
                   # <<executed[j].strategy, executed[j].col>>
    /\ pc = "done" => outcome.kind \in {"returned", "raised"}

StepsLeft ==
    LET n == Len(actual_columns.names)
    IN  IF pc = "strategy1" THEN 2 * n + 4
        ELSE IF pc = "strategy2" THEN (n + 1 - col_i) + n + 3
        ELSE IF pc = "strategy3" THEN (n + 1 - col_i) + 2
        ELSE IF pc = "raise" THEN 1
        ELSE 0

C9_BoundedTermination ==
    /\ []ExecutionsBounded
    /\ [](StepsLeft >= 0)
    /\ [][pc \notin {"idle", "done"} => StepsLeft' < StepsLeft]_vars

\* a call that made all the 2 + S + F executions, with S and F at least 1,
\* and ended
C9_Witness ==
    /\ pc = "done"
    /\ Cardinality(SpaceColumns) >= 1
    /\ Cardinality(FuzzyColumns) >= 1
    /\ Len(executed) = 2 + Cardinality(SpaceColumns) + Cardinality(FuzzyColumns)

\* C10: no column name of a relation made by the loader has a space, and no
\* call on such a relation makes a strategy-2 execution.
C10_NoStrategy2OnLoaded ==
    via = "loader" =>
        /\ \A t \in TableNames : \A k \in DOMAIN db_conn[t].cols : ~HasSpace(db_conn[t].cols[k])
        /\ \A i \in DOMAIN executed : executed[i].strategy # 2

====
